---- MODULE Spec2Model ----
(***************************************************************************)
(* pocketmon: the sampling-and-reporting loop of src/collector.go and the  *)
(* process lifecycle of src/main.go.                                       *)
(*                                                                         *)
(* Go strings that the program parses or concatenates are sequences of     *)
(* one-character strings.  float64 values are exact decimals in tenths.    *)
(* A decoded JSON value (interface{}) is a tagged record, a decoded JSON   *)
(* object (map[string]interface{}) a record of such values.                *)
(***************************************************************************)
EXTENDS Integers, Sequences, FiniteSets, TLC

(* ------------------------------ bounds -------------------------------- *)

\* cycles (calls of collectAndSend) one run may start
MaxCycles == 3
\* firings of the ticker one run may see
MaxTicks == 2
\* readings of the wall clock, in half seconds
MaxTime == 2

(* ----------------------------- constants ------------------------------ *)

endpoint ==
  <<"h","t","t","p","s",":","/","/","i","n","j","e","s","t",".",
    "l","u","n","a","r",".","d","e","v">>

\* TickerCap for a ticker that queues the ticks nobody has received yet
TickerCapQueued == 1 + 1

\* capacity of the channel ticker.C
TickerCap == 1

\* the largest byte count of a HostStats value put to String
MaxBytes == 2

\* MaxOkStatus for "resp.StatusCode > 400"
MaxOkStatusLoose == 399 + 1

\* the highest HTTP status sendStats takes for a success
MaxOkStatus == 399

(* --------------------------- decoded JSON ----------------------------- *)

JAbsent == [t |-> "absent", s |-> <<>>, b |-> FALSE, n |-> 0]
JStr(x) == [t |-> "string", s |-> x, b |-> FALSE, n |-> 0]
JBool(x) == [t |-> "bool", s |-> <<>>, b |-> x, n |-> 0]
JNum(x) == [t |-> "number", s |-> <<>>, b |-> FALSE, n |-> x]

(* ------------------------------ errors -------------------------------- *)

nil == [kind |-> "nil", code |-> 0, text |-> <<>>]
Err(k) == [kind |-> k, code |-> 0, text |-> <<>>]

(* ------------------------------ records ------------------------------- *)

ZeroNodeStats ==
  [Chain |-> <<>>, AppVersion |-> <<>>, Moniker |-> <<>>, Height |-> 0,
   LatestBlockTime |-> <<>>, CatchingUp |-> FALSE, Balance |-> 0,
   Chains |-> "nil", Jailed |-> FALSE, ServiceUrl |-> <<>>,
   Address |-> <<>>, PublicKey |-> <<>>]

ZeroHostStats ==
  [MemoryTotal |-> 0, MemoryFree |-> 0, DiskTotal |-> 0, DiskFree |-> 0,
   Uptime |-> 0, Platform |-> <<>>, CPUUsagePercent |-> 0]

ZeroStats ==
  [Version |-> <<>>, Timestamp |-> 0, Node |-> ZeroNodeStats, Host |-> ZeroHostStats]

NoRequest ==
  [method |-> "", url |-> <<>>, apiKey |-> <<>>, contentType |-> "", body |-> "none"]

\* no *http.Response: client.Do has not returned one
NoResponse == [fail |-> FALSE, status |-> 0, body |-> <<>>]

(* --------------------------- pure functions --------------------------- *)

Digits == <<"0","1","2","3","4","5","6","7","8","9">>
IsDigit(c) == \E i \in 1..10 : Digits[i] = c
DigitVal(c) == (CHOOSE i \in 1..10 : Digits[i] = c) - 1
HexDigits == {"0","1","2","3","4","5","6","7","8","9",
              "a","b","c","d","e","f","A","B","C","D","E","F"}

\* the decimal digits of math.MaxInt64
MaxInt64Digits ==
  <<"9","2","2","3","3","7","2","0","3","6","8","5","4","7","7","5","8","0","7">>

RECURSIVE DigitsValue(_)
DigitsValue(d) ==
  IF d = <<>> THEN 0 ELSE 10 * DigitsValue(SubSeq(d, 1, Len(d) - 1)) + DigitVal(d[Len(d)])

RECURSIVE StripZeros(_)
StripZeros(d) == IF Len(d) > 1 /\ d[1] = "0" THEN StripZeros(Tail(d)) ELSE d

\* d > e for digit strings of the same length
RECURSIVE DigitsGreater(_, _)
DigitsGreater(d, e) ==
  IF d = <<>> THEN FALSE
  ELSE IF d[1] # e[1] THEN DigitVal(d[1]) > DigitVal(e[1])
  ELSE DigitsGreater(Tail(d), Tail(e))

\* strconv.ParseInt(str, 10, 64): [v, err]
ParseInt(str) ==
  LET neg == str # <<>> /\ str[1] = "-"
      signed == str # <<>> /\ str[1] \in {"-", "+"}
      d == IF signed THEN Tail(str) ELSE str
      m == StripZeros(d)
  IN IF d = <<>> \/ \E i \in 1..Len(d) : ~IsDigit(d[i])
       THEN [v |-> 0, err |-> Err("syntax")]
     ELSE IF Len(m) > Len(MaxInt64Digits)
             \/ (Len(m) = Len(MaxInt64Digits) /\ DigitsGreater(m, MaxInt64Digits))
       THEN [v |-> 0, err |-> Err("range")]
     ELSE [v |-> IF neg THEN 0 - DigitsValue(m) ELSE DigitsValue(m), err |-> nil]

\* RFC3339 for a layout that keeps only a low-order part of the time
RFC3339LowOrder(t) == t % 2

\* time.Time.Format(time.RFC3339): second precision, the fraction is dropped
RFC3339(t) == t \div 2

\* getUrl
getUrl(node) == endpoint \o <<"/">> \o node

\* url.Parse as http.NewRequest uses it: a "%" must start a %XX escape
ParseURLOk(u) ==
  \A i \in 1..Len(u) :
    u[i] = "%" => (i + 2 <= Len(u) /\ u[i + 1] \in HexDigits /\ u[i + 2] \in HexDigits)

\* json.Marshal with LatestBlockTime under the key its tag was meant to give
MarshalTagged(s) ==
  [version |-> s.Version,
   timestamp |-> s.Timestamp,
   node |-> [chain |-> s.Node.Chain,
             app_version |-> s.Node.AppVersion,
             moniker |-> s.Node.Moniker,
             height |-> s.Node.Height,
             latest_block_time |-> s.Node.LatestBlockTime,
             catching_up |-> s.Node.CatchingUp,
             balance |-> s.Node.Balance,
             chains |-> IF s.Node.Chains = "nil" THEN "null" ELSE s.Node.Chains,
             jailed |-> s.Node.Jailed,
             service_url |-> s.Node.ServiceUrl,
             address |-> s.Node.Address,
             public_key |-> s.Node.PublicKey],
   host |-> [MemoryTotal |-> s.Host.MemoryTotal,
             MemoryFree |-> s.Host.MemoryFree,
             DiskTotal |-> s.Host.DiskTotal,
             DiskFree |-> s.Host.DiskFree,
             Uptime |-> s.Host.Uptime,
             Platform |-> s.Host.Platform,
             CPUUsagePercent |-> s.Host.CPUUsagePercent]]

\* json.Marshal(Stats): the document's keys are the struct tags; the tag of
\* LatestBlockTime is malformed, so the key is the field name, and HostStats
\* has no tags at all
Marshal(s) ==
  [version |-> s.Version,
   timestamp |-> s.Timestamp,
   node |-> [chain |-> s.Node.Chain,
             app_version |-> s.Node.AppVersion,
             moniker |-> s.Node.Moniker,
             height |-> s.Node.Height,
             LatestBlockTime |-> s.Node.LatestBlockTime,
             catching_up |-> s.Node.CatchingUp,
             balance |-> s.Node.Balance,
             chains |-> IF s.Node.Chains = "nil" THEN "null" ELSE s.Node.Chains,
             jailed |-> s.Node.Jailed,
             service_url |-> s.Node.ServiceUrl,
             address |-> s.Node.Address,
             public_key |-> s.Node.PublicKey],
   host |-> [MemoryTotal |-> s.Host.MemoryTotal,
             MemoryFree |-> s.Host.MemoryFree,
             DiskTotal |-> s.Host.DiskTotal,
             DiskFree |-> s.Host.DiskFree,
             Uptime |-> s.Host.Uptime,
             Platform |-> s.Host.Platform,
             CPUUsagePercent |-> s.Host.CPUUsagePercent]]

\* a float64 quotient, kept exact as numerator and denominator
Pct(free, total) == [num |-> 100 * free, den |-> total]

\* HostStats.String with the two arguments of each quotient exchanged
HostStatsStringInverted(s) ==
  [memP |-> Pct(s.MemoryTotal, s.MemoryFree), diskP |-> Pct(s.DiskTotal, s.DiskFree)]

\* HostStats.String: the two percentages it prints
HostStatsString(s) ==
  [memP |-> Pct(s.MemoryFree, s.MemoryTotal), diskP |-> Pct(s.DiskFree, s.DiskTotal)]

\* a key of a decoded JSON object, or the zero value the field keeps without it
Get(obj, key, zero) == IF key \in DOMAIN obj THEN obj[key] ELSE zero

\* json.Unmarshal(data, &Stats{}): every field is looked up under the key
\* json.Marshal writes it with
Unmarshal(doc) ==
  LET n == Get(doc, "node", <<>>)
      h == Get(doc, "host", <<>>)
      ch == Get(n, "chains", "null")
  IN [Version |-> Get(doc, "version", <<>>),
      Timestamp |-> Get(doc, "timestamp", 0),
      Node |-> [Chain |-> Get(n, "chain", <<>>),
                AppVersion |-> Get(n, "app_version", <<>>),
                Moniker |-> Get(n, "moniker", <<>>),
                Height |-> Get(n, "height", 0),
                LatestBlockTime |-> Get(n, "LatestBlockTime", <<>>),
                CatchingUp |-> Get(n, "catching_up", FALSE),
                Balance |-> Get(n, "balance", 0),
                Chains |-> IF ch = "null" THEN "nil" ELSE ch,
                Jailed |-> Get(n, "jailed", FALSE),
                ServiceUrl |-> Get(n, "service_url", <<>>),
                Address |-> Get(n, "address", <<>>),
                PublicKey |-> Get(n, "public_key", <<>>)],
      Host |-> [MemoryTotal |-> Get(h, "MemoryTotal", 0),
                MemoryFree |-> Get(h, "MemoryFree", 0),
                DiskTotal |-> Get(h, "DiskTotal", 0),
                DiskFree |-> Get(h, "DiskFree", 0),
                Uptime |-> Get(h, "Uptime", 0),
                Platform |-> Get(h, "Platform", <<>>),
                CPUUsagePercent |-> Get(h, "CPUUsagePercent", 0)]]

NoProbe ==
  [s |-> ZeroStats, strDone |-> FALSE, str |-> HostStatsString(ZeroHostStats),
   backDone |-> FALSE, back |-> ZeroStats]

(* ------------------------- the outside world -------------------------- *)

Str_linux == <<"l","i","n","u","x">>
Str_darwin == <<"d","a","r","w","i","n">>
Str_alice == <<"a","l","i","c","e">>
Str_addr == <<"a","b","1","2">>
Str_pubkey == <<"p","k","9">>
Str_url == <<"h","t","t","p","s",":","/","/","n",":","4","4","3">>
Str_time == <<"2","0","2","0","-","0","1","-","0","1","T","0","0",":","0","0","Z">>
Str_appver == <<"R","C","-","0",".","6",".","3">>
Str_v1 == <<"v","1">>
Str_pocket == <<"p","o","c","k","e","t">>

\* what gopsutil reports: mem.VirtualMemory, disk.Usage, cpu.Percent, host.Info
HostSamples ==
  { [memTotal |-> 16384, memAvailable |-> 4096, diskTotal |-> 100000, diskFree |-> 40000,
     cpu |-> 125, platform |-> Str_linux, uptime |-> 3600],
    [memTotal |-> 8192, memAvailable |-> 8192, diskTotal |-> 500, diskFree |-> 0,
     cpu |-> 0, platform |-> Str_darwin, uptime |-> 1] }

HostFailures == {"none", "mem", "disk", "cpu", "host"}

HostInputs == { [failAt |-> f, sample |-> h] : f \in HostFailures, h \in HostSamples }

\* an answer of GET /v1: no answer, or a body holding one JSON value
VersionResponses ==
  { [fail |-> TRUE, body |-> JAbsent],
    [fail |-> FALSE, body |-> JStr(Str_appver)],
    [fail |-> FALSE, body |-> JNum(1)] }

GoodStatus ==
  [result |-> TRUE, node_info |-> TRUE, id |-> JStr(Str_addr), moniker |-> JStr(Str_alice),
   sync_info |-> TRUE, latest_block_height |-> JStr(<<"1","0","0","0","0","0","0">>),
   latest_block_time |-> JStr(Str_time), catching_up |-> JBool(FALSE)]

NilStatus ==
  [result |-> FALSE, node_info |-> FALSE, id |-> JAbsent, moniker |-> JAbsent,
   sync_info |-> FALSE, latest_block_height |-> JAbsent,
   latest_block_time |-> JAbsent, catching_up |-> JAbsent]

\* the decoded bodies of GET /status the model draws from
StatusPayloads ==
  { GoodStatus,
    [GoodStatus EXCEPT !.latest_block_height = JStr(<<"-","0","7">>), !.catching_up = JBool(TRUE)],
    NilStatus,
    [GoodStatus EXCEPT !.node_info = FALSE, !.id = JAbsent, !.moniker = JAbsent],
    [GoodStatus EXCEPT !.moniker = JNum(7)],
    [GoodStatus EXCEPT !.sync_info = FALSE, !.latest_block_height = JAbsent,
                       !.latest_block_time = JAbsent, !.catching_up = JAbsent],
    [GoodStatus EXCEPT !.latest_block_height = JNum(1000000)],
    [GoodStatus EXCEPT !.latest_block_height = JStr(<<"1","2","x">>)],
    [GoodStatus EXCEPT !.latest_block_height =
       JStr(<<"9","2","2","3","3","7","2","0","3","6","8","5","4","7","7","5","8","0","8">>)],
    [GoodStatus EXCEPT !.catching_up = JStr(<<"n","o">>)] }

\* an answer of GET /status: no answer, a body that is no JSON object, or an object
StatusResponses ==
  { [fail |-> TRUE, decodes |-> FALSE, m |-> NilStatus],
    [fail |-> FALSE, decodes |-> FALSE, m |-> NilStatus] }
  \cup { [fail |-> FALSE, decodes |-> TRUE, m |-> p] : p \in StatusPayloads }

GoodNode == [public_key |-> JStr(Str_pubkey), jailed |-> JBool(FALSE), service_url |-> JStr(Str_url)]
NilNode == [public_key |-> JAbsent, jailed |-> JAbsent, service_url |-> JAbsent]

NodePayloads ==
  { GoodNode,
    NilNode,
    [GoodNode EXCEPT !.jailed = JStr(<<"n","o">>)],
    [GoodNode EXCEPT !.service_url = JAbsent] }

NodeResponses ==
  { [fail |-> TRUE, decodes |-> FALSE, m |-> NilNode],
    [fail |-> FALSE, decodes |-> FALSE, m |-> NilNode] }
  \cup { [fail |-> FALSE, decodes |-> TRUE, m |-> p] : p \in NodePayloads }

GoodBalance == [balance |-> JNum(425)]
NilBalance == [balance |-> JAbsent]

BalancePayloads == { GoodBalance, NilBalance, [balance |-> JStr(<<"4","2">>)] }

BalanceResponses ==
  { [fail |-> TRUE, decodes |-> FALSE, m |-> NilBalance],
    [fail |-> FALSE, decodes |-> FALSE, m |-> NilBalance] }
  \cup { [fail |-> FALSE, decodes |-> TRUE, m |-> p] : p \in BalancePayloads }

\* an answer of the collector: no answer, or a status code and a body text
CollectorResponses ==
  { [fail |-> TRUE, status |-> 0, body |-> <<>>],
    [fail |-> FALSE, status |-> 200, body |-> <<"o","k">>],
    [fail |-> FALSE, status |-> 399, body |-> <<>>],
    [fail |-> FALSE, status |-> 400, body |-> <<"b","a","d">>],
    [fail |-> FALSE, status |-> 500, body |-> <<"o","o","p","s">>] }

\* the values of --node and --key
NodeIds == { <<"n","1">>, <<"%","z","z">> }
ApiKeys == { <<"k","1">> }

(* ------------------------------ readers ------------------------------- *)

\* collectHostStats: [s, err]; the fields read before a failure stay in s
collectHostStats(in) ==
  LET h == in.sample
      s0 == ZeroHostStats
      s1 == [s0 EXCEPT !.MemoryTotal = h.memTotal, !.MemoryFree = h.memAvailable]
      s2 == [s1 EXCEPT !.DiskTotal = h.diskTotal, !.DiskFree = h.diskFree]
      s3 == [s2 EXCEPT !.CPUUsagePercent = h.cpu]
      s4 == [s3 EXCEPT !.Platform = h.platform, !.Uptime = h.uptime]
  IN IF in.failAt = "mem" THEN [s |-> s0, err |-> Err("mem")]
     ELSE IF in.failAt = "disk" THEN [s |-> s1, err |-> Err("disk")]
     ELSE IF in.failAt = "cpu" THEN [s |-> s2, err |-> Err("cpu")]
     ELSE IF in.failAt = "host" THEN [s |-> s3, err |-> Err("host")]
     ELSE [s |-> s4, err |-> nil]

\* queryVersion: [v, err]; open counts the response bodies it leaves unclosed:
\* once client.Get has answered, "defer r.Body.Close()" covers every return
queryVersion(resp) ==
  IF resp.fail THEN [v |-> <<>>, err |-> Err("transport"), open |-> 0]
  ELSE IF resp.body.t # "string" THEN [v |-> <<>>, err |-> Err("decode"), open |-> 0]
  ELSE [v |-> resp.body.s, err |-> nil, open |-> 0]

\* queryStatus, queryNode, queryBalance: [m, err]; nilMap is the nil map of the endpoint
queryMap(resp, nilMap) ==
  IF resp.fail THEN [m |-> nilMap, err |-> Err("transport"), open |-> 0]
  ELSE IF ~resp.decodes THEN [m |-> nilMap, err |-> Err("decode"), open |-> 0]
  ELSE [m |-> resp.m, err |-> nil, open |-> 0]

Step(s, err, panic) == [s |-> s, err |-> err, panic |-> panic]

\* collectNodeStats up to the answer of queryVersion
nodeStatsVersion(resp) ==
  LET s == [ZeroNodeStats EXCEPT !.Chain = Str_pocket]
      q == queryVersion(resp)
  IN IF q.err # nil THEN Step(s, q.err, FALSE)
     ELSE Step([s EXCEPT !.AppVersion = q.v], nil, FALSE)

\* collectNodeStats from queryStatus to the last field taken from its answer;
\* a type assertion x.(T) without ", ok" panics when x is absent or no T
nodeStatsStatus(s, resp) ==
  LET q == queryMap(resp, NilStatus)
      m == q.m
      s1 == [s EXCEPT !.Address = m.id.s]
      s2 == [s1 EXCEPT !.Moniker = m.moniker.s]
      h == ParseInt(m.latest_block_height.s)
      s3 == [s2 EXCEPT !.Height = h.v]
      s4 == [s3 EXCEPT !.LatestBlockTime = m.latest_block_time.s]
      s5 == [s4 EXCEPT !.CatchingUp = m.catching_up.b]
  IN IF q.err # nil THEN Step(s, q.err, FALSE)
     ELSE IF ~m.result THEN Step(s, Err("Invalid data from /status call"), FALSE)
     ELSE IF ~m.node_info THEN Step(s, nil, TRUE)
     ELSE IF m.id.t # "string" THEN Step(s, nil, TRUE)
     ELSE IF m.moniker.t # "string" THEN Step(s1, nil, TRUE)
     ELSE IF ~m.sync_info THEN Step(s2, nil, TRUE)
     ELSE IF m.latest_block_height.t # "string" THEN Step(s2, nil, TRUE)
     ELSE IF h.err # nil THEN Step(s2, h.err, FALSE)
     ELSE IF m.latest_block_time.t # "string" THEN Step(s3, nil, TRUE)
     ELSE IF m.catching_up.t # "bool" THEN Step(s4, nil, TRUE)
     ELSE Step(s5, nil, FALSE)

\* collectNodeStats from queryNode to the last field taken from its answer
nodeStatsNode(s, resp) ==
  LET q == queryMap(resp, NilNode)
      m == q.m
      s1 == [s EXCEPT !.PublicKey = m.public_key.s]
      s2 == [s1 EXCEPT !.Jailed = m.jailed.b]
      s3 == [s2 EXCEPT !.ServiceUrl = m.service_url.s]
  IN IF q.err # nil THEN Step(s, q.err, FALSE)
     ELSE IF m.public_key.t # "string" THEN Step(s, nil, TRUE)
     ELSE IF m.jailed.t # "bool" THEN Step(s1, nil, TRUE)
     ELSE IF m.service_url.t # "string" THEN Step(s2, nil, TRUE)
     ELSE Step(s3, nil, FALSE)

\* collectNodeStats from queryBalance to its return
nodeStatsBalance(s, resp) ==
  LET q == queryMap(resp, NilBalance)
      m == q.m
  IN IF q.err # nil THEN Step(s, q.err, FALSE)
     ELSE IF m.balance.t # "number" THEN Step(s, nil, TRUE)
     ELSE Step([s EXCEPT !.Balance = m.balance.n], nil, FALSE)

(* ------------------------------ reporter ------------------------------ *)

\* sendStats with a failed or rejected request handed to client.Do once more
sendStatsRetry(node, key, s, resp) ==
  LET req == [method |-> "POST", url |-> getUrl(node), apiKey |-> key,
              contentType |-> "application/json", body |-> Marshal(s)]
  IN IF ~ParseURLOk(getUrl(node))
       THEN [req |-> NoRequest, sent |-> <<>>, err |-> nil, panic |-> TRUE, open |-> 0]
     ELSE IF resp.fail
       THEN [req |-> req, sent |-> <<req, req>>, err |-> Err("transport"), panic |-> FALSE,
             open |-> 0]
     ELSE IF resp.status > MaxOkStatus
       THEN [req |-> req, sent |-> <<req, req>>,
             err |-> [kind |-> "status", code |-> resp.status, text |-> resp.body],
             panic |-> FALSE, open |-> 0]
     ELSE [req |-> req, sent |-> <<req>>, err |-> nil, panic |-> FALSE, open |-> 1]

\* sendStats: req is the request built, sent the requests handed to client.Do,
\* open the response bodies left unclosed: only "StatusCode > 399" closes the body.
\* The error of http.NewRequest is dropped: when the URL does not parse, req is
\* nil and req.Header.Set dereferences it.
sendStats(node, key, s, resp) ==
  LET url == getUrl(node)
      data == Marshal(s)
      req == [method |-> "POST", url |-> url, apiKey |-> key,
              contentType |-> "application/json", body |-> data]
  IN IF ~ParseURLOk(url)
       THEN [req |-> NoRequest, sent |-> <<>>, err |-> nil, panic |-> TRUE, open |-> 0]
     ELSE IF resp.fail
       THEN [req |-> req, sent |-> <<req>>, err |-> Err("transport"), panic |-> FALSE,
             open |-> 0]
     ELSE IF resp.status > MaxOkStatus
       THEN [req |-> req, sent |-> <<req>>,
             err |-> [kind |-> "status", code |-> resp.status, text |-> resp.body],
             panic |-> FALSE, open |-> 0]
     ELSE [req |-> req, sent |-> <<req>>, err |-> nil, panic |-> FALSE, open |-> 1]

(* ------------------------------- state -------------------------------- *)

VARIABLES
  nodeId,      \* main.go: --node
  apiKey,      \* main.go: --key
  mainPc,      \* where main is: "waitForInterrupt", "cancel", "return", "exited"
  ctxDone,     \* ctx.Done() is closed
  alive,       \* the process runs
  loopPc,      \* where start is: "start", "startup", "select", "tick", "returned", "panicked"
  tickerC,     \* ticks buffered in ticker.C
  ticksFired,  \* firings of the ticker so far
  now,         \* the wall clock
  cycles,      \* the calls of collectAndSend so far, each with its locals
  assembled,   \* history: [cycle, ts] of every report collectStats returned, in order
  failed,      \* history: the cycles whose collectStats returned an error
  posts,       \* history: [cycle, ts, ok] of every request handed to client.Do, in order
  panicAt,     \* the step that panicked, "none" when none did
  probe,       \* a Stats value with what String and a JSON round trip make of it
  openBodies   \* response bodies obtained from client.Do or client.Get and not closed

vars ==
  <<nodeId, apiKey, mainPc, ctxDone, alive, loopPc, tickerC, ticksFired, now,
    cycles, assembled, failed, posts, panicAt, probe, openBodies>>

\* Order with sendStats called before the balance is read and the report complete
OrderSendEarly ==
  <<"collectHostStats", "queryVersion", "queryStatus", "queryNode", "sendStats", "queryBalance">>

\* the external operations of one cycle in the order collectStats, collectNodeStats
\* and collectAndSend reach them
Order ==
  <<"collectHostStats", "queryVersion", "queryStatus", "queryNode", "queryBalance", "sendStats">>

IndexOf(op) == CHOOSE i \in 1..Len(Order) : Order[i] = op

\* the locals of a fresh call of collectAndSend
NewCycle(kind) ==
  [kind |-> kind, pc |-> Order[1], s |-> ZeroStats, hs |-> ZeroHostStats,
   ns |-> ZeroNodeStats, err |-> nil, ops |-> <<>>, req |-> NoRequest,
   resp |-> NoResponse]

\* a call that has returned: its locals are gone
Returned(c) == [NewCycle(c.kind) EXCEPT !.pc = "done"]

\* NextPc without the checks of err: every step is followed by the next one
NextPcIgnoreErr(pc, err) ==
  IF pc = Order[Len(Order)] THEN "return" ELSE Order[IndexOf(pc) + 1]

\* NextPc with a failed step tried again
NextPcRetry(pc, err) ==
  IF err # nil THEN pc
  ELSE IF pc = Order[Len(Order)] THEN "return" ELSE Order[IndexOf(pc) + 1]

\* "if err != nil { return ... }" after every step, else on to the next one
NextPc(pc, err) ==
  IF err # nil \/ pc = Order[Len(Order)] THEN "return" ELSE Order[IndexOf(pc) + 1]

\* CallSite for "go collectAndSend(node, key)": start is back at its select at once
CallSiteSpawn(kind) == "select"

\* collectAndSend is called, not spawned: start stays at the call until it returns
CallSite(kind) == kind

Running == { i \in 1..Len(cycles) : cycles[i].pc \notin {"done", "panic"} }

Init ==
  /\ nodeId \in NodeIds
  /\ apiKey \in ApiKeys
  /\ mainPc = "waitForInterrupt"
  /\ ctxDone = FALSE
  /\ alive = TRUE
  /\ loopPc = "start"
  /\ tickerC = 0
  /\ ticksFired = 0
  /\ now = 0
  /\ cycles = <<>>
  /\ assembled = <<>>
  /\ failed = {}
  /\ posts = <<>>
  /\ panicAt = "none"
  /\ probe = NoProbe
  /\ openBodies = 0

(* ------------------------------- main --------------------------------- *)

\* waitForInterrupt returns: SIGINT or SIGTERM has arrived
Interrupt ==
  /\ alive /\ mainPc = "waitForInterrupt"
  /\ mainPc' = "cancel"
  /\ UNCHANGED <<probe, openBodies, nodeId, apiKey, ctxDone, alive, loopPc, tickerC, ticksFired, now,
                 cycles, assembled, failed, posts, panicAt>>

\* cancel()
Cancel ==
  /\ alive /\ mainPc = "cancel"
  /\ ctxDone' = TRUE
  /\ mainPc' = "return"
  /\ UNCHANGED <<probe, openBodies, nodeId, apiKey, alive, loopPc, tickerC, ticksFired, now,
                 cycles, assembled, failed, posts, panicAt>>

\* MainReturn for a main that waits for start to return before it does
MainReturnWaits ==
  /\ alive /\ mainPc = "return"
  /\ loopPc = "returned"
  /\ mainPc' = "exited"
  /\ alive' = FALSE
  /\ UNCHANGED <<probe, openBodies, nodeId, apiKey, ctxDone, loopPc, tickerC, ticksFired, now,
                 cycles, assembled, failed, posts, panicAt>>

\* Run, Execute and main return: the process ends, whatever start is doing
MainReturn ==
  /\ alive /\ mainPc = "return"
  /\ mainPc' = "exited"
  /\ alive' = FALSE
  /\ UNCHANGED <<probe, openBodies, nodeId, apiKey, ctxDone, loopPc, tickerC, ticksFired, now,
                 cycles, assembled, failed, posts, panicAt>>

(* ---------------------------- environment ----------------------------- *)

\* the runtime's timer sends on ticker.C and drops the tick when the buffer is full
TickFire ==
  /\ alive /\ loopPc # "start"
  /\ ticksFired < MaxTicks
  /\ ticksFired' = ticksFired + 1
  /\ tickerC' = IF tickerC < TickerCap THEN tickerC + 1 ELSE tickerC
  /\ UNCHANGED <<probe, openBodies, nodeId, apiKey, mainPc, ctxDone, alive, loopPc, now,
                 cycles, assembled, failed, posts, panicAt>>

\* time passes; the wall clock time.Now reads is taken never to be set back
ClockAdvance ==
  /\ alive
  /\ now < MaxTime
  /\ now' = now + 1
  /\ UNCHANGED <<probe, openBodies, nodeId, apiKey, mainPc, ctxDone, alive, loopPc, tickerC, ticksFired,
                 cycles, assembled, failed, posts, panicAt>>

(* ------------------------------- start -------------------------------- *)

\* StartEnter without the call of collectAndSend before the loop
StartEnterNoCycle ==
  /\ alive /\ loopPc = "start"
  /\ loopPc' = "select"
  /\ UNCHANGED <<probe, openBodies, nodeId, apiKey, mainPc, ctxDone, alive, tickerC, ticksFired, now,
                 cycles, assembled, failed, posts, panicAt>>

\* start up to the first call: the banner, time.NewTicker, collectAndSend
StartEnter ==
  /\ alive /\ loopPc = "start"
  /\ Len(cycles) < MaxCycles
  /\ cycles' = Append(cycles, NewCycle("startup"))
  /\ loopPc' = CallSite("startup")
  /\ UNCHANGED <<probe, openBodies, nodeId, apiKey, mainPc, ctxDone, alive, tickerC, ticksFired, now,
                 assembled, failed, posts, panicAt>>

\* select: case <-ctx.Done()
SelectDone ==
  /\ alive /\ loopPc = "select"
  /\ ctxDone
  /\ loopPc' = "returned"
  /\ UNCHANGED <<probe, openBodies, nodeId, apiKey, mainPc, ctxDone, alive, tickerC, ticksFired, now,
                 cycles, assembled, failed, posts, panicAt>>

\* select: case <-ticker.C; with both cases ready Go picks either
SelectTick ==
  /\ alive /\ loopPc = "select"
  /\ tickerC > 0
  /\ Len(cycles) < MaxCycles
  /\ tickerC' = tickerC - 1
  /\ cycles' = Append(cycles, NewCycle("tick"))
  /\ loopPc' = CallSite("tick")
  /\ UNCHANGED <<probe, openBodies, nodeId, apiKey, mainPc, ctxDone, alive, ticksFired, now,
                 assembled, failed, posts, panicAt>>

(* ------------------------- one cycle, by steps ------------------------ *)

Op(name, r) == [op |-> name, ok |-> r.err = nil /\ ~r.panic]

\* an unrecovered panic in the goroutine ends the process
Panics(c, name, r) ==
  /\ cycles' = [cycles EXCEPT ![c].pc = "panic", ![c].ops = Append(@, Op(name, r))]
  /\ alive' = FALSE
  /\ loopPc' = "panicked"
  /\ panicAt' = name

\* collectStats up to the return of collectHostStats
CollectHostStats(c) ==
  /\ alive /\ c \in Running /\ cycles[c].pc = "collectHostStats"
  /\ \E in \in HostInputs :
       LET r == collectHostStats(in)
           s == [ZeroStats EXCEPT !.Version = Str_v1, !.Timestamp = RFC3339(now)]
       IN /\ cycles' = [cycles EXCEPT
                          ![c].s = s,
                          ![c].hs = r.s,
                          ![c].err = r.err,
                          ![c].ops = Append(@, [op |-> "collectHostStats", ok |-> r.err = nil]),
                          ![c].pc = NextPc("collectHostStats", r.err)]
          /\ failed' = IF r.err # nil THEN failed \cup {c} ELSE failed
  /\ UNCHANGED <<probe, openBodies, nodeId, apiKey, mainPc, ctxDone, alive, loopPc, tickerC, ticksFired, now,
                 assembled, posts, panicAt>>

\* a step of collectNodeStats that returns, with an error or on to the next query
NodeStep(c, name, r) ==
  /\ cycles' = [cycles EXCEPT
                  ![c].ns = r.s,
                  ![c].err = r.err,
                  ![c].ops = Append(@, Op(name, r)),
                  ![c].pc = NextPc(name, r.err)]
  /\ failed' = IF r.err # nil THEN failed \cup {c} ELSE failed
  /\ UNCHANGED <<alive, loopPc, panicAt>>

QueryVersion(c) ==
  /\ alive /\ c \in Running /\ cycles[c].pc = "queryVersion"
  /\ \E resp \in VersionResponses :
       /\ NodeStep(c, "queryVersion", nodeStatsVersion(resp))
       /\ openBodies' = openBodies + queryVersion(resp).open
  /\ UNCHANGED <<probe, nodeId, apiKey, mainPc, ctxDone, tickerC, ticksFired, now,
                 assembled, posts>>

QueryStatus(c) ==
  /\ alive /\ c \in Running /\ cycles[c].pc = "queryStatus"
  /\ \E resp \in StatusResponses :
       LET r == nodeStatsStatus(cycles[c].ns, resp)
       IN /\ IF r.panic
               THEN Panics(c, "queryStatus", r) /\ failed' = failed
               ELSE NodeStep(c, "queryStatus", r)
          /\ openBodies' = openBodies + queryMap(resp, NilStatus).open
  /\ UNCHANGED <<probe, nodeId, apiKey, mainPc, ctxDone, tickerC, ticksFired, now,
                 assembled, posts>>

QueryNode(c) ==
  /\ alive /\ c \in Running /\ cycles[c].pc = "queryNode"
  /\ \E resp \in NodeResponses :
       LET r == nodeStatsNode(cycles[c].ns, resp)
       IN /\ IF r.panic
               THEN Panics(c, "queryNode", r) /\ failed' = failed
               ELSE NodeStep(c, "queryNode", r)
          /\ openBodies' = openBodies + queryMap(resp, NilNode).open
  /\ UNCHANGED <<probe, nodeId, apiKey, mainPc, ctxDone, tickerC, ticksFired, now,
                 assembled, posts>>

\* the last step of collectNodeStats and the rest of collectStats: s.Host, s.Node
QueryBalance(c) ==
  /\ alive /\ c \in Running /\ cycles[c].pc = "queryBalance"
  /\ \E resp \in BalanceResponses :
       LET r == nodeStatsBalance(cycles[c].ns, resp)
           s == [cycles[c].s EXCEPT !.Host = cycles[c].hs, !.Node = r.s]
       IN /\ openBodies' = openBodies + queryMap(resp, NilBalance).open
          /\ IF r.panic
               THEN /\ Panics(c, "queryBalance", r)
                    /\ UNCHANGED <<failed, assembled>>
             ELSE IF r.err # nil
               THEN /\ NodeStep(c, "queryBalance", r)
                    /\ UNCHANGED assembled
             ELSE /\ cycles' = [cycles EXCEPT
                                  ![c].ns = r.s,
                                  ![c].s = s,
                                  ![c].err = nil,
                                  ![c].ops = Append(@, Op("queryBalance", r)),
                                  ![c].pc = NextPc("queryBalance", nil)]
                  /\ assembled' = Append(assembled, [cycle |-> c, ts |-> s.Timestamp])
                  /\ UNCHANGED <<failed, alive, loopPc, panicAt>>
  /\ UNCHANGED <<probe, nodeId, apiKey, mainPc, ctxDone, tickerC, ticksFired, now, posts>>

PostsOf(c, r) ==
  [i \in 1..Len(r.sent) |->
     [cycle |-> c, ts |-> r.sent[i].body.timestamp, ok |-> r.err = nil]]

\* collectAndSend from the call of sendStats to its return
SendStats(c) ==
  /\ alive /\ c \in Running /\ cycles[c].pc = "sendStats"
  /\ \E resp \in CollectorResponses :
       LET r == sendStats(nodeId, apiKey, cycles[c].s, resp)
       IN /\ posts' = posts \o PostsOf(c, r)
          /\ openBodies' = openBodies + r.open
          /\ IF r.panic
               THEN Panics(c, "sendStats", r)
               ELSE /\ cycles' = [cycles EXCEPT
                                    ![c].req = r.req,
                                    ![c].resp = resp,
                                    ![c].err = r.err,
                                    ![c].ops = Append(@, Op("sendStats", r)),
                                    ![c].pc = NextPc("sendStats", r.err)]
                    /\ UNCHANGED <<alive, loopPc, panicAt>>
  /\ UNCHANGED <<probe, nodeId, apiKey, mainPc, ctxDone, tickerC, ticksFired, now,
                 assembled, failed>>

\* collectAndSend logs the error, if any, and returns; start goes on to its select
CycleReturn(c) ==
  /\ alive /\ c \in Running /\ cycles[c].pc = "return"
  /\ loopPc = cycles[c].kind
  /\ cycles' = [cycles EXCEPT ![c] = Returned(@)]
  /\ loopPc' = "select"
  /\ UNCHANGED <<probe, openBodies, nodeId, apiKey, mainPc, ctxDone, alive, tickerC, ticksFired, now,
                 assembled, failed, posts, panicAt>>

HttpSteps == {"queryVersion", "queryStatus", "queryNode", "queryBalance", "sendStats"}

\* the peer accepts the request and never answers: client has no Timeout and
\* the requests carry no context, so client.Get or client.Do does not return
Hang(c) ==
  /\ alive /\ c \in Running /\ cycles[c].pc \in HttpSteps
  /\ cycles[c].pc = "sendStats" => ParseURLOk(getUrl(nodeId))
  /\ LET r == sendStats(nodeId, apiKey, cycles[c].s, [NoResponse EXCEPT !.fail = TRUE])
         send == cycles[c].pc = "sendStats"
     IN /\ cycles' = [cycles EXCEPT
                        ![c].ops = Append(@, [op |-> cycles[c].pc, ok |-> FALSE]),
                        ![c].req = IF send THEN r.req ELSE @,
                        ![c].pc = "blocked"]
        /\ posts' = IF send THEN posts \o PostsOf(c, r) ELSE posts
  /\ UNCHANGED <<probe, openBodies, nodeId, apiKey, mainPc, ctxDone, alive, loopPc, tickerC,
                 ticksFired, now, assembled, failed, panicAt>>

Cycle(c) ==
  \/ Hang(c)
  \/ CollectHostStats(c)
  \/ QueryVersion(c)
  \/ QueryStatus(c)
  \/ QueryNode(c)
  \/ QueryBalance(c)
  \/ SendStats(c)
  \/ CycleReturn(c)

Next ==
  \/ Interrupt
  \/ Cancel
  \/ MainReturn
  \/ TickFire
  \/ ClockAdvance
  \/ StartEnter
  \/ SelectDone
  \/ SelectTick
  \/ \E c \in 1..MaxCycles : Cycle(c)

Spec == Init /\ [][Next]_vars

(* ------------------- String and the JSON round trip ------------------- *)

\* HostStats values: any byte counts, free above total included
HostValues ==
  { [ZeroHostStats EXCEPT !.MemoryTotal = mt, !.MemoryFree = mf, !.DiskTotal = dt,
                          !.DiskFree = df, !.CPUUsagePercent = cpu,
                          !.Platform = Str_linux, !.Uptime = 3600] :
      mt \in 1..MaxBytes, mf \in 0..(MaxBytes + 1),
      dt \in 1..MaxBytes, df \in 0..(MaxBytes + 1), cpu \in {0, 125} }

FullNodeStats ==
  [Chain |-> Str_pocket, AppVersion |-> Str_appver, Moniker |-> Str_alice,
   Height |-> 1000000, LatestBlockTime |-> Str_time, CatchingUp |-> TRUE,
   Balance |-> 425, Chains |-> "nil", Jailed |-> TRUE, ServiceUrl |-> Str_url,
   Address |-> Str_addr, PublicKey |-> Str_pubkey]

NodeValues ==
  { ZeroNodeStats, FullNodeStats,
    [FullNodeStats EXCEPT !.Height = 0 - 7, !.CatchingUp = FALSE, !.Balance = 0] }

StatsValues ==
  { [Version |-> Str_v1, Timestamp |-> ts, Node |-> n, Host |-> h] :
      ts \in 0..1, n \in NodeValues, h \in HostValues }

InitPure ==
  /\ probe \in { [NoProbe EXCEPT !.s = v] : v \in StatsValues }
  /\ nodeId = <<"n","1">>
  /\ apiKey = <<"k","1">>
  /\ mainPc = "waitForInterrupt"
  /\ ctxDone = FALSE
  /\ alive = TRUE
  /\ loopPc = "start"
  /\ tickerC = 0
  /\ ticksFired = 0
  /\ now = 0
  /\ cycles = <<>>
  /\ assembled = <<>>
  /\ failed = {}
  /\ posts = <<>>
  /\ panicAt = "none"
  /\ openBodies = 0

\* s.Host.String(), as collectStats calls it for its log line
ApplyString ==
  /\ ~probe.strDone
  /\ probe' = [probe EXCEPT !.strDone = TRUE, !.str = HostStatsString(probe.s.Host)]
  /\ UNCHANGED <<openBodies, nodeId, apiKey, mainPc, ctxDone, alive, loopPc, tickerC,
                 ticksFired, now, cycles, assembled, failed, posts, panicAt>>

\* json.Marshal as sendStats calls it, and the collector's decoding of the body
ApplyRoundTrip ==
  /\ ~probe.backDone
  /\ probe' = [probe EXCEPT !.backDone = TRUE, !.back = Unmarshal(Marshal(probe.s))]
  /\ UNCHANGED <<openBodies, nodeId, apiKey, mainPc, ctxDone, alive, loopPc, tickerC,
                 ticksFired, now, cycles, assembled, failed, posts, panicAt>>

NextPure == ApplyString \/ ApplyRoundTrip

SpecPure == InitPure /\ [][NextPure]_vars

(* ------------------------------ properties ---------------------------- *)

Started == 1..Len(cycles)
PostCount(c) == Cardinality({ i \in 1..Len(posts) : posts[i].cycle = c })
IsAssembled(c) == \E i \in 1..Len(assembled) : assembled[i].cycle = c
SendIssued(c) == \E i \in 1..Len(cycles[c].ops) : cycles[c].ops[i].op = "sendStats"
PanickedInCollect(c) == cycles[c].pc = "panic" /\ panicAt # "sendStats"

\* C1: a cycle whose assembly has failed (collectStats returned an error, or a
\* reader did not return at all) hands no request to the collector: sendStats is
\* not called in it and no POST of that cycle exists.
C1_NoSendAfterFailedAssembly ==
  \A c \in Started :
    (c \in failed \/ PanickedInCollect(c)) =>
      /\ PostCount(c) = 0
      /\ ~SendIssued(c)
      /\ cycles[c].req = NoRequest
      /\ cycles[c].pc \in {"return", "done", "panic"}

\* a cycle has returned from a failed node query, with an earlier cycle's POST on record
C1_Witness ==
  \E c \in Started :
    /\ c \in failed
    /\ cycles[c].pc = "return"
    /\ cycles[c].err.kind = "transport"
    /\ Len(cycles[c].ops) > 1
    /\ Len(posts) > 0

\* C2: a cycle that fails at any stage leaves the process running: the process
\* ends only after the external cancellation, never because of a cycle.
C2_OnlyCancellationEndsProcess ==
  ~alive => (mainPc = "exited" /\ panicAt = "none")

\* C3: a decoded payload of /status, /v1/query/node or /v1/query/balance with an
\* absent or mistyped field makes collectNodeStats return an error; it never
\* panics.
C3_MalformedPayloadReturnsError ==
  panicAt \notin {"queryStatus", "queryNode", "queryBalance"}

\* C4: once the context is cancelled, start, having reached its loop, begins no
\* further cycle, also when a tick is pending as it comes to wait.
C4_NoCycleAfterCancel ==
  [][(ctxDone /\ loopPc # "start") => Len(cycles') = Len(cycles)]_vars

\* C5: start runs exactly one cycle before it first waits on the ticker, and
\* every later cycle is one the ticker started.
C5_StartupCycleFirst ==
  /\ loopPc # "start" => (Len(cycles) >= 1 /\ cycles[1].kind = "startup")
  /\ \A c \in Started : c > 1 => cycles[c].kind = "tick"
  /\ loopPc = "startup" => (Len(cycles) = 1 /\ tickerC = IF ticksFired > 0 THEN 1 ELSE 0)
  /\ (loopPc \in {"select", "tick", "returned"}) => cycles[1].pc = "done"
  /\ Len(cycles) <= 1 + ticksFired

\* the startup cycle is over and the first tick has started the second cycle
C5_Witness ==
  /\ loopPc = "tick"
  /\ Len(cycles) = 2
  /\ cycles[1].pc = "done"
  /\ cycles[2].kind = "tick"

\* C6: at most one cycle is running at any time, and while one runs start is
\* inside the call, not at its select: a tick that fires meanwhile waits.
C6_OneCycleAtATime ==
  /\ Cardinality(Running) <= 1
  /\ Running # {} => loopPc \in {"startup", "tick"}

\* a tick is pending in ticker.C while a cycle is still running
C6_Witness ==
  \E c \in Running : tickerC = 1 /\ cycles[c].pc \notin {"collectHostStats", "return"}

ClaimedOrder ==
  <<"collectHostStats", "queryVersion", "queryStatus", "queryNode", "queryBalance", "sendStats">>

\* C7: the external operations of a cycle are issued in the order host read,
\* version, status, node, balance, POST; each only after all earlier ones
\* succeeded; after a failure the cycle issues nothing more.
C7_FixedOrderNoRetry ==
  \A c \in Started :
    LET ops == cycles[c].ops
    IN /\ Len(ops) <= Len(ClaimedOrder)
       /\ \A i \in 1..Len(ops) :
            /\ ops[i].op = ClaimedOrder[i]
            /\ i < Len(ops) => ops[i].ok
       /\ (Len(ops) > 0 /\ ~ops[Len(ops)].ok) =>
            cycles[c].pc \in {"return", "panic", "blocked"}
       /\ (c \in Running /\ cycles[c].pc \notin {"return", "blocked"}) =>
            cycles[c].pc = ClaimedOrder[Len(ops) + 1]

\* one cycle has issued all six operations
C7_Witness ==
  \E c \in Started : Len(cycles[c].ops) = Len(ClaimedOrder) /\ cycles[c].pc = "return"

\* C8: a cycle whose assembly succeeded issues exactly one POST, to
\* <endpoint>/<nodeId> with the x-api-key header, whose body holds the report.
C8_OnePostPerAssembledCycle ==
  \A c \in Started :
    (IsAssembled(c) /\ cycles[c].pc \in {"return", "done", "panic"}) =>
      /\ PostCount(c) = 1
      /\ cycles[c].pc = "return" =>
           /\ cycles[c].req.url = endpoint \o <<"/">> \o nodeId
           /\ cycles[c].req.apiKey = apiKey
           /\ cycles[c].req.body.host.CPUUsagePercent = cycles[c].s.Host.CPUUsagePercent
           /\ cycles[c].req.body.node.height = cycles[c].s.Node.Height
           /\ cycles[c].req.body.version = Str_v1

RECURSIVE IsSubseq(_, _)
IsSubseq(a, b) ==
  IF a = <<>> THEN TRUE
  ELSE IF b = <<>> THEN FALSE
  ELSE IF a[1] = b[1] THEN IsSubseq(Tail(a), Tail(b))
  ELSE IsSubseq(a, Tail(b))

Report(p) == [cycle |-> p.cycle, ts |-> p.ts]

\* C9: a report whose send failed is not sent again, by its cycle or a later
\* one: no cycle has more than one POST, every POST carries the report of the
\* cycle that issued it, and a cycle that has returned keeps nothing.
C9_FailedSendDropped ==
  /\ \A c \in Started : PostCount(c) <= 1
  /\ \A i \in 1..Len(posts) :
       \E j \in 1..Len(assembled) : assembled[j] = Report(posts[i])
  /\ \A c \in Started :
       cycles[c].req # NoRequest =>
         /\ cycles[c].req.body = Marshal(cycles[c].s)
         /\ posts[Len(posts)] = [cycle |-> c, ts |-> cycles[c].s.Timestamp,
                                 ok |-> cycles[c].err = nil /\ cycles[c].pc # "blocked"]
  /\ \A c \in Started : cycles[c].pc = "done" => cycles[c] = Returned(cycles[c])

\* a send has failed and a later cycle has sent its own report
C9_Witness ==
  \E i, j \in 1..Len(posts) :
    /\ i < j
    /\ ~posts[i].ok
    /\ posts[j].cycle > posts[i].cycle

\* C10: the POSTs reach the collector in the order of assembly: the reports of
\* the POSTs are a subsequence of the reports assembled.
C10_PostsInAssemblyOrder ==
  IsSubseq([i \in 1..Len(posts) |-> Report(posts[i])], assembled)

\* three reports were assembled and the first two were sent
C10_Witness ==
  /\ Len(assembled) = 3
  /\ Len(posts) = 2

\* C11: sendStats returns nil exactly when the request was delivered and the
\* status is below 400; for a status of 400 or more it returns an error
\* carrying the status code and the body text; for a transport failure it
\* returns the transport's error.
C11_SendStatsResult ==
  \A c \in Started :
    (cycles[c].pc = "return" /\ cycles[c].req # NoRequest) =>
      LET e == cycles[c].err
          r == cycles[c].resp
      IN /\ e = nil <=> (~r.fail /\ r.status < 400)
         /\ (~r.fail /\ r.status >= 400) =>
              (e.kind = "status" /\ e.code = r.status /\ e.text = r.body)
         /\ r.fail => e.kind = "transport"

\* sendStats has returned the rejection of a status 400
C11_Witness ==
  \E c \in Started :
    /\ cycles[c].pc = "return"
    /\ cycles[c].resp.status = 400
    /\ cycles[c].err.kind = "status"

\* C12: when a sub-query of the host read or of the node read fails, the value
\* the reader returns with its error holds no field of the sub-queries that had
\* succeeded, and no report holds partly filled host or node metrics.
C12_NoPartialResultReturned ==
  \A c \in Started :
    (c \in failed /\ cycles[c].pc = "return") =>
      /\ Len(cycles[c].ops) = 1 => cycles[c].hs = ZeroHostStats
      /\ Len(cycles[c].ops) > 1 => cycles[c].ns = ZeroNodeStats
      /\ cycles[c].s.Host = ZeroHostStats
      /\ cycles[c].s.Node = ZeroNodeStats

OkPosts == { i \in 1..Len(posts) : posts[i].ok }

InRange(p) == p.den > 0 /\ 0 <= p.num /\ p.num <= 100 * p.den

\* C14: for every HostStats value with MemoryTotal > 0 and DiskTotal > 0 the
\* two free percentages of String lie in [0, 100].
C14_PercentInRange ==
  (probe.strDone /\ probe.s.Host.MemoryTotal > 0 /\ probe.s.Host.DiskTotal > 0) =>
    (InRange(probe.str.memP) /\ InRange(probe.str.diskP))

\* C14 as amended: the same, for values whose free counts do not exceed the totals.
C14_PercentInRangeWhenFreeWithinTotal ==
  (/\ probe.strDone
   /\ probe.s.Host.MemoryTotal > 0 /\ probe.s.Host.DiskTotal > 0
   /\ probe.s.Host.MemoryFree <= probe.s.Host.MemoryTotal
   /\ probe.s.Host.DiskFree <= probe.s.Host.DiskTotal) =>
    (InRange(probe.str.memP) /\ InRange(probe.str.diskP))

\* String has run on a value with all memory free and no disk free: 100% and 0%
C14_Witness ==
  /\ probe.strDone
  /\ probe.s.Host.MemoryFree = probe.s.Host.MemoryTotal
  /\ probe.s.Host.DiskFree = 0
  /\ probe.str.memP.num = 100 * probe.str.memP.den
  /\ probe.str.diskP.num = 0

C16_NoCycleBlocksForever ==
  \A c \in Started : cycles[c].pc # "blocked"

\* C17: after the stop signal main cancels the context and returns without
\* waiting for start: neither step depends on where the loop or a cycle is.
C17_ExitDoesNotWaitForLoop ==
  alive =>
    /\ mainPc = "cancel" => ENABLED Cancel
    /\ mainPc = "return" => ENABLED MainReturn

\* the process has ended by main's return while a cycle sat in a call that never returns
C17_Witness ==
  /\ mainPc = "exited"
  /\ ~alive
  /\ \E c \in Started : cycles[c].pc = "blocked"

\* C18: after the startup cycle every cycle has received its own tick; ticks are
\* not queued, at most one is pending; so the cycles started never exceed one
\* plus the ticks fired, pending ones not counted.
C18_TicksStartCycles ==
  /\ tickerC \in {0, 1}
  /\ loopPc = "start" => (Len(cycles) = 0 /\ ticksFired = 0 /\ tickerC = 0)
  /\ loopPc # "start" => (Len(cycles) >= 1 /\ (Len(cycles) - 1) + tickerC <= ticksFired)
  /\ \A c \in Started : (cycles[c].kind = "tick") <=> c > 1

\* two ticks have fired during the startup cycle and only one is pending
C18_Witness ==
  /\ Len(cycles) = 1
  /\ 1 \in Running
  /\ ticksFired = 2
  /\ tickerC = 1

\* C19: when a cycle ends, every response obtained in it has had its body
\* closed: between cycles no response body is open.
C19_BodiesClosedAtCycleEnd ==
  (\A c \in Started : cycles[c].pc \in {"return", "done"}) => openBodies = 0

====
